---- MODULE Spec2Model ----
(***************************************************************************)
(* Backup and restore of the migration-tracking table to numbered JSON     *)
(* snapshot files (zero_migrations/backup.py, zero_migrations/utils/       *)
(* restore.py).                                                            *)
(*                                                                         *)
(* Representation.                                                         *)
(*   - A Python str is a sequence of character codes (ASCII), so that      *)
(*     slicing, concatenation and sorted() (code-point order) are the      *)
(*     operations the code performs.  A directory entry written by         *)
(*     BackupFile is  <revision characters> "_" <file_name>, where the     *)
(*     file_name given to the constructor is kept as one opaque last       *)
(*     element: it is only ever compared with itself (endswith) and two    *)
(*     entries are always told apart before it is reached.                 *)
(*   - A Python value is [t |-> type name, v |-> payload], the payload     *)
(*     always a sequence of integers; a JSON value is [j |-> kind, v |->   *)
(*     payload].                                                           *)
(*   - The backup directory is a function from entry names to the JSON     *)
(*     document each file holds; the table is the sequence of its rows in  *)
(*     iteration order.                                                    *)
(***************************************************************************)
EXTENDS Integers, Sequences, FiniteSets, TLC

VARIABLES
  dir,      \* backup directory: entry name -> JSON document of the file
  table,    \* rows of the migration table, in iteration order
  last,     \* the call that completed last: its outcome, and in had the
            \* number of rows the table held when it was made
  writes,   \* number of BackupFile.write calls since the directory was empty
  lastPath, \* path opened by the most recent write
  lastData, \* data given to the most recent write
  snap,     \* table contents when MigrationBackup.save ran last
  wpc,      \* concurrent writers: position of each inside write()
  wpath,    \* concurrent writers: the new_file_path each has computed
  wdata,    \* concurrent writers: the data each is writing
  opened    \* concurrent writers: order in which they opened their file

vars == <<dir, table, last, writes, lastPath, lastData, snap, wpc, wpath, wdata, opened>>

(***************************************************************************)
(* Bounds of the model.                                                    *)
(***************************************************************************)
MaxWrites == 3
MaxSaves == 2
MaxOverflowWrites == 3

(***************************************************************************)
(* Python str and int primitives.                                          *)
(***************************************************************************)
Ascii ==
  [c \in {"0", "1", "2", "3", "4", "5", "6", "7", "8", "9"} |->
     CASE c = "0" -> 48 [] c = "1" -> 49 [] c = "2" -> 50 [] c = "3" -> 51
       [] c = "4" -> 52 [] c = "5" -> 53 [] c = "6" -> 54 [] c = "7" -> 55
       [] c = "8" -> 56 [] c = "9" -> 57]
  @@ [c \in {"-", ":", ".", "T", "_", "+", " ", "a", "u", "t", "h", "i", "n", "l"} |->
     CASE c = "-" -> 45 [] c = ":" -> 58 [] c = "." -> 46 [] c = "T" -> 84
       [] c = "_" -> 95 [] c = "+" -> 43 [] c = " " -> 32 [] c = "a" -> 97
       [] c = "u" -> 117 [] c = "t" -> 116 [] c = "h" -> 104 [] c = "i" -> 105
       [] c = "n" -> 110 [] c = "l" -> 108]

\* The str whose characters are listed in t.
Chars(t) == [i \in 1..Len(t) |-> Ascii[t[i]]]

IsDigit(c) == c \in 48..57

\* int(s[a-1:b]) for decimal digits at positions a..b of s.
RECURSIVE IntAt(_, _, _)
IntAt(s, a, b) ==
  IF a > b THEN 0 ELSE 10 * IntAt(s, a, b - 1) + (s[b] - 48)

\* int(s) for a str of decimal digits.
int(s) == IntAt(s, 1, Len(s))

\* "%d" % n for n >= 0.
RECURSIVE str_of_int(_)
str_of_int(n) ==
  IF n < 10 THEN <<48 + n>>
  ELSE Append(str_of_int(n \div 10), 48 + (n % 10))

\* "%0<width>d" % n: zeros are added on the left up to width; a longer
\* number is never cut.
RECURSIVE zero_pad(_, _)
zero_pad(s, width) ==
  IF Len(s) >= width THEN s ELSE zero_pad(<<48>> \o s, width)

format_d(n, width) == zero_pad(str_of_int(n), width)

MaxOf(T) == CHOOSE m \in T : \A k \in T : k <= m

\* sorted(names)[-1] for directory entries that end with the same file_name:
\* the greatest in code-point order.  The characters of an entry are its
\* elements before the last; at position i every member of S agrees on
\* positions 1..i-1, and an entry whose characters end there is smaller
\* than every longer one.
RECURSIVE SortedLastFrom(_, _)
SortedLastFrom(S, i) ==
  LET longer == {s \in S : Len(s) > i}
  IN IF Cardinality(S) = 1 \/ longer = {} THEN CHOOSE s \in S : TRUE
     ELSE LET m == MaxOf({s[i] : s \in longer})
          IN SortedLastFrom({s \in longer : s[i] = m}, i + 1)

sorted_last(S) == SortedLastFrom(S, 1)

(***************************************************************************)
(* BackupFile (backup.py).  file_name is self._file_name; d is the content *)
(* of self.backup_dir_path.                                                *)
(***************************************************************************)
REVISION_START_FROM == Chars(<<"0", "0", "0", "1">>)

BACKUP_FILE_NAME == "backup_migrations_table.json"

\* The dir_name MigrationBackup gives its BackupFile.
MigrationBackup_dir_name == "migrations"

\* The names zero_migrations.constants gives MigrationRestore's BackupFile:
\* the directory and the file name MigrationBackup writes.
MIGRATION_TABLE_BACKUP_DIR_NAME == "migrations"
MIGRATION_TABLE_BACKUP_FILE_NAME == "backup_migrations_table.json"

revision_num_len == Len(REVISION_START_FROM)

\* None, and the falsy result of latest_revision.
None == <<>>

EmptyDir == <<>>

listdir(d) == DOMAIN d

endswith(name, file_name) == name[Len(name)] = file_name

latest_revision(d, file_name) ==
  LET all_backups == {n \in listdir(d) : endswith(n, file_name)}
  IN IF all_backups = {} THEN None ELSE sorted_last(all_backups)

\* make_next_revision_number, latest being what self.latest_revision returns.
next_revision_number_after(latest) ==
  format_d(int(SubSeq(latest, 1, revision_num_len)) + 1, revision_num_len)

make_next_revision_number(d, file_name) ==
  next_revision_number_after(latest_revision(d, file_name))

\* next_revision, latest being what self.latest_revision returns: the
\* directory does not change between the property's two listings of it.
next_revision_after(latest, file_name) ==
  IF latest = None
  THEN REVISION_START_FROM \o <<95>> \o <<file_name>>
  ELSE next_revision_number_after(latest)
         \o SubSeq(latest, revision_num_len + 1, Len(latest))

next_revision(d, file_name) ==
  next_revision_after(latest_revision(d, file_name), file_name)

new_file_path(d, file_name) == next_revision(d, file_name)

latest_file_path_after(latest, file_name) ==
  IF latest # None THEN latest ELSE next_revision_after(latest, file_name)

latest_file_path(d, file_name) ==
  latest_file_path_after(latest_revision(d, file_name), file_name)

(***************************************************************************)
(* Python values and datetime (standard library).  A datetime payload is   *)
(* <<year, month, day, hour, minute, second, microsecond>>, followed by    *)
(* the UTC offset in minutes when it is timezone-aware; a date payload is  *)
(* <<year, month, day>>.                                                   *)
(***************************************************************************)
PyInt(n) == [t |-> "int", v |-> <<n>>]
PyStr(s) == [t |-> "str", v |-> s]
PyBool(b) == [t |-> "bool", v |-> <<IF b THEN 1 ELSE 0>>]
PyNone == [t |-> "NoneType", v |-> <<>>]
PyDatetime(v) == [t |-> "datetime", v |-> v]
PyDate(v) == [t |-> "date", v |-> v]

IsLeap(y) == (y % 4 = 0 /\ y % 100 # 0) \/ y % 400 = 0

DaysInMonth(y, m) ==
  IF m = 2 THEN (IF IsLeap(y) THEN 29 ELSE 28)
  ELSE IF m \in {4, 6, 9, 11} THEN 30 ELSE 31

Abs(n) == IF n < 0 THEN -n ELSE n

\* date.isoformat(): YYYY-MM-DD.
date_isoformat(v) ==
  format_d(v[1], 4) \o <<45>> \o format_d(v[2], 2) \o <<45>> \o format_d(v[3], 2)

\* datetime.isoformat(): YYYY-MM-DDTHH:MM:SS, then .ffffff when the
\* microsecond is not 0, then +HH:MM or -HH:MM when timezone-aware.
datetime_isoformat(v) ==
  date_isoformat(v) \o <<84>>
    \o format_d(v[4], 2) \o <<58>> \o format_d(v[5], 2) \o <<58>> \o format_d(v[6], 2)
    \o (IF v[7] # 0 THEN <<46>> \o format_d(v[7], 6) ELSE <<>>)
    \o (IF Len(v) = 8
        THEN <<IF v[8] < 0 THEN 45 ELSE 43>>
               \o format_d(Abs(v[8]) \div 60, 2) \o <<58>> \o format_d(Abs(v[8]) % 60, 2)
        ELSE <<>>)

isoformat(o) == IF o.t = "date" THEN date_isoformat(o.v) ELSE datetime_isoformat(o.v)

AllDigits(s, a, b) == \A i \in a..b : IsDigit(s[i])

Field(s, a, b) == IntAt(s, a, b)

\* The date part of s, positions 1..10, is YYYY-MM-DD of a real day.
IsoDateOk(s) ==
  /\ AllDigits(s, 1, 4) /\ s[5] = 45 /\ AllDigits(s, 6, 7) /\ s[8] = 45
  /\ AllDigits(s, 9, 10)
  /\ Field(s, 1, 4) >= 1
  /\ Field(s, 6, 7) \in 1..12
  /\ Field(s, 9, 10) \in 1..DaysInMonth(Field(s, 1, 4), Field(s, 6, 7))

\* HH:MM:SS at positions 12..19.
IsoTimeOk(s) ==
  /\ AllDigits(s, 12, 13) /\ s[14] = 58 /\ AllDigits(s, 15, 16) /\ s[17] = 58
  /\ AllDigits(s, 18, 19)
  /\ Field(s, 12, 13) < 24 /\ Field(s, 15, 16) < 60 /\ Field(s, 18, 19) < 60

\* .ffffff at positions a..a+6.
IsoFractionOk(s, a) == s[a] = 46 /\ AllDigits(s, a + 1, a + 6)

\* +HH:MM or -HH:MM at positions a..a+5.
IsoOffsetOk(s, a) ==
  /\ s[a] \in {43, 45}
  /\ AllDigits(s, a + 1, a + 2) /\ s[a + 3] = 58 /\ AllDigits(s, a + 4, a + 5)
  /\ Field(s, a + 1, a + 2) < 24 /\ Field(s, a + 4, a + 5) < 60

IsoOffset(s, a) ==
  (IF s[a] = 45 THEN -1 ELSE 1) * (60 * Field(s, a + 1, a + 2) + Field(s, a + 4, a + 5))

IsoDateFields(s) == <<Field(s, 1, 4), Field(s, 6, 7), Field(s, 9, 10)>>

IsoTimeFields(s) == <<Field(s, 12, 13), Field(s, 15, 16), Field(s, 18, 19)>>

\* datetime.fromisoformat(s) for a str s: [ok |-> TRUE, v |-> payload] or, on
\* ValueError, [ok |-> FALSE, v |-> <<>>].  The strings accepted are the ones
\* date.isoformat() and datetime.isoformat() produce, with any one character
\* between date and time.
fromisoformat(s) ==
  LET n == Len(s)
      bad == [ok |-> FALSE, v |-> <<>>]
      good(v) == [ok |-> TRUE, v |-> v]
  IN IF n < 10 \/ ~IsoDateOk(s) THEN bad
     ELSE IF n = 10 THEN good(IsoDateFields(s) \o <<0, 0, 0, 0>>)
     ELSE IF n < 19 \/ ~IsoTimeOk(s) THEN bad
     ELSE IF n = 19 THEN good(IsoDateFields(s) \o IsoTimeFields(s) \o <<0>>)
     ELSE IF n = 25 /\ IsoOffsetOk(s, 20)
       THEN good(IsoDateFields(s) \o IsoTimeFields(s) \o <<0, IsoOffset(s, 20)>>)
     ELSE IF n = 26 /\ IsoFractionOk(s, 20)
       THEN good(IsoDateFields(s) \o IsoTimeFields(s) \o <<Field(s, 21, 26)>>)
     ELSE IF n = 32 /\ IsoFractionOk(s, 20) /\ IsoOffsetOk(s, 27)
       THEN good(IsoDateFields(s) \o IsoTimeFields(s)
                   \o <<Field(s, 21, 26), IsoOffset(s, 27)>>)
     ELSE bad

(***************************************************************************)
(* JSON (json.dump with default=, json.load with object_hook=).  A         *)
(* document is the sequence of its objects, an object a function from      *)
(* field names to JSON values.                                             *)
(***************************************************************************)
\* write's default hook: called for a value json cannot encode itself.  It
\* returns None, by falling off its end, for anything but datetime and date.
datetime_json_serialize(obj) ==
  IF obj.t \in {"datetime", "date"} THEN PyStr(isoformat(obj)) ELSE PyNone

json_native(o) ==
  CASE o.t = "int" -> [j |-> "number", v |-> o.v]
    [] o.t = "str" -> [j |-> "string", v |-> o.v]
    [] o.t = "bool" -> [j |-> IF o.v = <<1>> THEN "true" ELSE "false", v |-> <<>>]
    [] OTHER -> [j |-> "null", v |-> <<>>]

json_dump_value(o) ==
  IF o.t \in {"int", "str", "bool", "NoneType"}
  THEN json_native(o)
  ELSE json_native(datetime_json_serialize(o))

json_dump(data) ==
  [i \in 1..Len(data) |-> [f \in DOMAIN data[i] |-> json_dump_value(data[i][f])]]

json_load_value(jv) ==
  CASE jv.j = "number" -> [t |-> "int", v |-> jv.v]
    [] jv.j = "string" -> [t |-> "str", v |-> jv.v]
    [] jv.j = "true" -> PyBool(TRUE)
    [] jv.j = "false" -> PyBool(FALSE)
    [] OTHER -> PyNone

\* read's object hook: fromisoformat raises TypeError for a value that is
\* not a str and ValueError for a str it cannot parse; both are passed over.
parsed_or(value, parsed) == IF parsed.ok THEN PyDatetime(parsed.v) ELSE value

deserialize_value(value) ==
  IF value.t # "str" THEN value ELSE parsed_or(value, fromisoformat(value.v))

datetime_json_deserialize(obj) == [f \in DOMAIN obj |-> deserialize_value(obj[f])]

json_load(doc) ==
  [i \in 1..Len(doc) |->
     datetime_json_deserialize([f \in DOMAIN doc[i] |-> json_load_value(doc[i][f])])]

\* open_w_and_dump as it would be with mode "x": a file already there is
\* left as it is.
open_x_and_dump(d, path, data) ==
  IF path \in listdir(d) THEN d ELSE (path :> json_dump(data)) @@ d

\* with open(path, "w") as f: json.dump(data, f, default=...): "w" creates
\* the file or truncates the one already there.  The result is the
\* directory afterwards.
open_w_and_dump(d, path, data) == (path :> json_dump(data)) @@ d

\* BackupFile.write
write(d, file_name, data) ==
  open_w_and_dump(d, new_file_path(d, file_name), data)

\* open_r_and_load as it would be if a missing file read as an empty list.
open_r_and_load_or_empty(d, path) ==
  [err |-> "none", path |-> path,
   ret |-> IF path \in listdir(d) THEN json_load(d[path]) ELSE <<>>]

\* with open(path, "r") as f: json.load(f, object_hook=...): what it returns
\* or raises.
open_r_and_load(d, path) ==
  IF path \in listdir(d)
  THEN [err |-> "none", path |-> path, ret |-> json_load(d[path])]
  ELSE [err |-> "FileNotFoundError", path |-> path, ret |-> <<>>]

\* BackupFile.read
read(d, file_name) == open_r_and_load(d, latest_file_path(d, file_name))

(***************************************************************************)
(* The migration table (django.db.migrations.recorder) as the code uses    *)
(* it: iterate the rows, read a field, construct a row, delete all rows,   *)
(* bulk-insert, and run a function in transaction.atomic.  The table       *)
(* keeps each inserted row object as it was given.                         *)
(***************************************************************************)
FieldNames == {"id", "app", "name", "applied"}

getattr(row, f) == IF f \in DOMAIN row THEN row[f] ELSE PyNone

\* MigrationBackup.get_migrations_data_from_db
get_migrations_data_from_db(tbl) ==
  [i \in 1..Len(tbl) |-> [f \in FieldNames |-> getattr(tbl[i], f)]]

\* Migration(**record) raises TypeError for a keyword that is no field.
MigrationAccepts(record) == DOMAIN record \subseteq FieldNames

Migration(record) == [f \in FieldNames |-> getattr(record, f)]

\* The loop of get_migrations_data_from_backup over what read() returned, r.
construct_rows(r) ==
  IF r.err # "none"
  THEN [err |-> r.err, path |-> r.path, ret |-> <<>>, rows |-> <<>>]
  ELSE IF \E i \in 1..Len(r.ret) : ~MigrationAccepts(r.ret[i])
  THEN [err |-> "TypeError", path |-> r.path, ret |-> r.ret, rows |-> <<>>]
  ELSE [err |-> "none", path |-> r.path, ret |-> r.ret,
        rows |-> [i \in 1..Len(r.ret) |-> Migration(r.ret[i])]]

\* get_migrations_data_from_backup (MigrationBackup and MigrationRestore):
\* what it raises, the path it opened, what read() returned and the rows
\* it constructed.
get_migrations_data_from_backup(d, file_name) == construct_rows(read(d, file_name))

\* Migration.objects.all().delete()
delete_all(tbl) == <<>>

\* Migration.objects.bulk_create(objs)
bulk_create(tbl, objs) == tbl \o objs

\* Where the database may fail inside a restore.
Faults == {"none", "delete", "bulk_create"}

\* restore_statements as they would be if an empty snapshot made the body
\* return before it deletes.
restore_statements_unless_empty(bk, tbl, fault) ==
  [err |-> IF bk.err # "none" THEN bk.err
           ELSE IF bk.rows # <<>> /\ fault # "none" THEN "DatabaseError"
           ELSE "none",
   path |-> bk.path,
   ret |-> bk.ret,
   work |-> IF bk.err # "none" \/ fault = "delete" \/ bk.rows = <<>> THEN tbl
            ELSE IF fault = "bulk_create" THEN delete_all(tbl)
            ELSE bulk_create(delete_all(tbl), bk.rows)]

\* The body of MigrationRestore.restore / MigrationBackup.load, bk being
\* what get_migrations_data_from_backup returned: what the body raises and
\* the table as its statements leave it.  An empty list makes bulk_create
\* return before it reaches the database.
restore_statements(bk, tbl, fault) ==
  [err |-> IF bk.err # "none" THEN bk.err
           ELSE IF fault = "delete" \/ (fault = "bulk_create" /\ bk.rows # <<>>)
           THEN "DatabaseError"
           ELSE "none",
   path |-> bk.path,
   ret |-> bk.ret,
   work |-> IF bk.err # "none" \/ fault = "delete" THEN tbl
            ELSE IF fault = "bulk_create" /\ bk.rows # <<>> THEN delete_all(tbl)
            ELSE bulk_create(delete_all(tbl), bk.rows)]

\* The call without @transaction.atomic: nothing is rolled back.
not_atomic(before, out) == out

\* @transaction.atomic: the table after the call is what the statements
\* left when they return, and what it was before when they raise.
atomic(before, out) ==
  [out EXCEPT !.work = IF out.err = "none" THEN out.work ELSE before]

\* MigrationRestore.restore
restore(d, tbl, fault) ==
  atomic(tbl, restore_statements(
                get_migrations_data_from_backup(d, MIGRATION_TABLE_BACKUP_FILE_NAME),
                tbl, fault))

\* MigrationBackup.load
load(d, tbl, fault) ==
  atomic(tbl, restore_statements(
                get_migrations_data_from_backup(d, BACKUP_FILE_NAME), tbl, fault))

(***************************************************************************)
(* Values the model draws its inputs from.                                 *)
(***************************************************************************)
StrAuth == Chars(<<"a", "u", "t", "h">>)
StrInitial1 == Chars(<<"0", "0", "0", "1", "_", "i", "n", "i", "t", "i", "a", "l">>)
StrInitial2 == Chars(<<"0", "0", "0", "2", "_", "i", "n", "i", "t", "i", "a", "l">>)
StrIsoDatetime ==
  Chars(<<"2", "0", "2", "4", "-", "0", "1", "-", "0", "1", "T",
          "0", "0", ":", "0", "0", ":", "0", "0">>)

DtPlain == <<2024, 1, 1, 0, 0, 0, 0>>
DtMicro == <<2023, 12, 31, 23, 59, 59, 123456>>
DtAware == <<2024, 2, 29, 12, 30, 5, 5, 0>>
DtAwareWest == <<2024, 2, 29, 12, 30, 5, 0, -330>>

Row1 == [id |-> PyInt(1), app |-> PyStr(StrAuth), name |-> PyStr(StrInitial1),
         applied |-> PyDatetime(DtPlain)]
Row1Later == [Row1 EXCEPT !.applied = PyDatetime(DtMicro)]
Row2 == [id |-> PyInt(2), app |-> PyStr(StrAuth), name |-> PyStr(StrInitial2),
         applied |-> PyDatetime(DtAware)]

Rows == {Row1, Row1Later, Row2}

RecDatetime == [id |-> PyInt(1), applied |-> PyDatetime(DtMicro)]
RecAware == [id |-> PyInt(2), applied |-> PyDatetime(DtAwareWest)]
RecIsoStr == [id |-> PyInt(1), applied |-> PyStr(StrIsoDatetime)]
RecPlain == [app |-> PyStr(StrAuth), flag |-> PyBool(TRUE), gone |-> PyNone,
             name |-> PyStr(StrInitial1)]
RecDate == [id |-> PyInt(3), day |-> PyDate(<<2024, 2, 29>>)]

SampleData ==
  {<<>>, <<RecDatetime>>, <<RecAware, RecPlain>>, <<RecPlain, RecAware>>,
   <<RecIsoStr>>, <<RecDate>>}

ForeignData == <<RecPlain>>

Writers == {1, 2}

(***************************************************************************)
(* State and operations.                                                   *)
(***************************************************************************)
NoCall ==
  [op |-> "none", err |-> "none", path |-> None, ret |-> <<>>, fault |-> "none",
   had |-> 0]

\* The directory as BackupFile.__init__ makes it (mkdir) and an empty table.
Init ==
  /\ dir = EmptyDir
  /\ table = <<>>
  /\ last = NoCall
  /\ writes = 0
  /\ lastPath = None
  /\ lastData = <<>>
  /\ snap = [has |-> FALSE, rows |-> <<>>]
  /\ wpc = [p \in Writers |-> "idle"]
  /\ wpath = [p \in Writers |-> None]
  /\ wdata = [p \in Writers |-> <<>>]
  /\ opened = <<>>

\* The number of writes after which the next revision number no longer fits
\* the width of REVISION_START_FROM, less two.
NearOverflowWrites == 10 ^ revision_num_len - 2

SavesAllowed ==
  \/ writes < MaxSaves
  \/ /\ writes >= NearOverflowWrites
     /\ writes < NearOverflowWrites + MaxOverflowWrites

\* BackupFile.write(data), called directly.
Write(data) ==
  /\ writes < MaxWrites
  /\ dir' = write(dir, BACKUP_FILE_NAME, data)
  /\ lastPath' = new_file_path(dir, BACKUP_FILE_NAME)
  /\ lastData' = data
  /\ writes' = writes + 1
  /\ last' = [NoCall EXCEPT !.op = "write", !.path = lastPath']
  /\ UNCHANGED <<table, snap, wpc, wpath, wdata, opened>>

\* MigrationBackup.save()
Save ==
  /\ SavesAllowed
  /\ dir' = write(dir, BACKUP_FILE_NAME, get_migrations_data_from_db(table))
  /\ lastPath' = new_file_path(dir, BACKUP_FILE_NAME)
  /\ lastData' = get_migrations_data_from_db(table)
  /\ writes' = writes + 1
  /\ last' = [NoCall EXCEPT !.op = "save", !.path = lastPath']
  /\ snap' = [has |-> TRUE, rows |-> table]
  /\ UNCHANGED <<table, wpc, wpath, wdata, opened>>

Returned(op, r, fault) ==
  [op |-> op, err |-> r.err, path |-> r.path, ret |-> r.ret, fault |-> fault,
   had |-> Len(table)]

\* BackupFile.read()
Read ==
  /\ last' = Returned("read", read(dir, BACKUP_FILE_NAME), "none")
  /\ UNCHANGED <<dir, table, writes, lastPath, lastData, snap, wpc, wpath, wdata, opened>>

Restored(op, out, fault) ==
  /\ table' = out.work
  /\ last' = Returned(op, out, fault)
  /\ UNCHANGED <<dir, writes, lastPath, lastData, snap, wpc, wpath, wdata, opened>>

\* The directory BackupFile(dir_name, file_name) works in, backups/dir_name
\* under the package: dir is backups/migrations, and any other directory is
\* as mkdir makes it, since nothing writes there.
backup_dir(dir_name) == IF dir_name = MigrationBackup_dir_name THEN dir ELSE EmptyDir

\* MigrationRestore.restore(), the database failing at fault.
Restore(fault) ==
  Restored("restore",
           restore(backup_dir(MIGRATION_TABLE_BACKUP_DIR_NAME), table, fault), fault)

\* MigrationBackup.load(), the database failing at fault.
Load(fault) ==
  Restored("load", load(backup_dir(MigrationBackup_dir_name), table, fault), fault)

\* The application changes the table between the calls: a migration is
\* recorded, unrecorded, or its row rewritten.
DbCall == [NoCall EXCEPT !.op = "db"]

DbInsert(row) ==
  /\ \A i \in 1..Len(table) : table[i].id # row.id
  /\ table' = Append(table, row)
  /\ last' = DbCall
  /\ UNCHANGED <<dir, writes, lastPath, lastData, snap, wpc, wpath, wdata, opened>>

DbDelete(i) ==
  /\ i \in 1..Len(table)
  /\ table' = SubSeq(table, 1, i - 1) \o SubSeq(table, i + 1, Len(table))
  /\ last' = DbCall
  /\ UNCHANGED <<dir, writes, lastPath, lastData, snap, wpc, wpath, wdata, opened>>

DbUpdate(i, row) ==
  /\ i \in 1..Len(table)
  /\ table[i].id = row.id
  /\ table[i] # row
  /\ table' = [table EXCEPT ![i] = row]
  /\ last' = DbCall
  /\ UNCHANGED <<dir, writes, lastPath, lastData, snap, wpc, wpath, wdata, opened>>

\* Two callers inside BackupFile.write at once.  Each evaluates
\* self.new_file_path (list the directory, compute the next revision) and
\* then opens that path and writes; nothing orders the two callers.
Compute(p, data) ==
  /\ wpc[p] = "idle"
  /\ wdata' = [wdata EXCEPT ![p] = data]
  /\ wpath' = [wpath EXCEPT ![p] = new_file_path(dir, BACKUP_FILE_NAME)]
  /\ wpc' = [wpc EXCEPT ![p] = "computed"]
  /\ UNCHANGED <<dir, table, last, writes, lastPath, lastData, snap, opened>>

Open(p) ==
  /\ wpc[p] = "computed"
  /\ dir' = open_w_and_dump(dir, wpath[p], wdata[p])
  /\ wpc' = [wpc EXCEPT ![p] = "done"]
  /\ opened' = Append(opened, p)
  /\ writes' = writes + 1
  /\ lastPath' = wpath[p]
  /\ lastData' = wdata[p]
  /\ last' = [NoCall EXCEPT !.op = "write", !.path = wpath[p]]
  /\ UNCHANGED <<table, snap, wpath, wdata>>

(***************************************************************************)
(* Specifications.                                                         *)
(***************************************************************************)
\* Backup and restore of the table, one call at a time.  ForeignData is
\* what a write() of some other caller left under the same file name.
Next ==
  \/ Save
  \/ Write(ForeignData)
  \/ Read
  \/ \E fault \in Faults : Restore(fault)
  \/ \E fault \in Faults : Load(fault)
  \/ \E row \in Rows : DbInsert(row)
  \/ \E i \in 1..Len(table) : DbDelete(i)
  \/ \E i \in 1..Len(table), row \in Rows : DbUpdate(i, row)

Spec == Init /\ [][Next]_vars

\* Two concurrent write calls.
NextRace ==
  \/ \E p \in Writers, data \in SampleData : Compute(p, data)
  \/ \E p \in Writers : Open(p)

SpecRace == Init /\ [][NextRace]_vars

\* The directory after n save() calls of the empty table, starting from d.
RECURSIVE SavedTimes(_, _)
SavedTimes(d, n) ==
  IF n = 0 THEN d
  ELSE IF n = 1 THEN write(d, BACKUP_FILE_NAME, get_migrations_data_from_db(<<>>))
  ELSE LET half == SavedTimes(d, n \div 2)
       IN IF listdir(half) = {} THEN half ELSE SavedTimes(half, n - (n \div 2))

\* The state after the save() call that turns directory before into the
\* directory of n files.
StateAfterSaves(before, n) ==
  /\ dir = SavedTimes(before, 1)
  /\ lastPath = new_file_path(before, BACKUP_FILE_NAME)
  /\ table = <<>>
  /\ last = [NoCall EXCEPT !.op = "save", !.path = lastPath]
  /\ writes = n
  /\ lastData = get_migrations_data_from_db(<<>>)
  /\ snap = [has |-> TRUE, rows |-> <<>>]
  /\ wpc = [p \in Writers |-> "idle"]
  /\ wpath = [p \in Writers |-> None]
  /\ wdata = [p \in Writers |-> <<>>]
  /\ opened = <<>>

\* The state NearOverflowWrites save() calls after Init.
InitOverflow ==
  StateAfterSaves(SavedTimes(EmptyDir, NearOverflowWrites - 1), NearOverflowWrites)

\* Backup and restore from there on: the calls during which the revision
\* number outgrows the width of REVISION_START_FROM.
NextOverflow ==
  \/ Save
  \/ Read
  \/ Restore("none")
  \/ Load("none")
  \/ \E row \in {Row1, Row2} : DbInsert(row)
  \/ DbDelete(1)

SpecOverflow == InitOverflow /\ [][NextOverflow]_vars

(***************************************************************************)
(* The claims.                                                             *)
(***************************************************************************)
\* The entry name of revision k of the table's snapshot: "%04d" % k, "_" and
\* the file name.
RevisionName(k) == format_d(k, revision_num_len) \o <<95, BACKUP_FILE_NAME>>

\* The entry name "0001_<name>".
FirstRevisionName == <<48, 48, 48, 49, 95, BACKUP_FILE_NAME>>

\* The file read() opens exists and holds the empty list.
LatestSnapshotIsEmptyList ==
  /\ latest_file_path(dir, BACKUP_FILE_NAME) \in listdir(dir)
  /\ json_load(dir[latest_file_path(dir, BACKUP_FILE_NAME)]) = <<>>

\* C1: after N sequential writes to an empty directory the files are exactly
\* the revisions 0001, 0002, ..., N, and the N-th write is the one that
\* created revision N.
C1_WritesCountUp ==
  /\ listdir(dir) = {RevisionName(k) : k \in 1..writes}
  /\ writes >= 1 => lastPath = RevisionName(writes)

\* C2: a write creates exactly one new file: the path it opens is not in the
\* directory before, the directory afterwards is the one before plus that
\* path, and every file that was there keeps its contents.
C2_WriteNeverOverwrites ==
  [][writes' = writes + 1 =>
       /\ lastPath' \notin listdir(dir)
       /\ listdir(dir') = listdir(dir) \cup {lastPath'}
       /\ \A n \in listdir(dir) : dir'[n] = dir[n]]_vars

\* C3: a restore (or load) that raises, whichever step raised, leaves the
\* table as it was before the call; one that returns leaves exactly the rows
\* of the snapshot it read.
C3_RestoreAllOrNothing ==
  [][last'.op \in {"restore", "load"} =>
       IF last'.err = "none"
       THEN table' = json_load(dir[last'.path])
       ELSE table' = table]_vars

\* C3, witness: a restore of a non-empty snapshot failed in the bulk insert,
\* after the delete, and the table still holds rows that are not the
\* snapshot's.
C3_Witness ==
  /\ last.op = "restore"
  /\ last.fault = "bulk_create"
  /\ last.err = "DatabaseError"
  /\ last.ret # <<>>
  /\ table # <<>>
  /\ table # last.ret

\* C4: read() after write(records) returns records equal to the ones
\* written, in the same order, every field with its type and value.
C4_RoundTrip ==
  last.op = "read" /\ writes >= 1 => last.err = "none" /\ last.ret = lastData

\* C5: after one or more sequential writes read() opens the file the last
\* write created and returns what that write stored.
C5_ReadsLastWritten ==
  last.op = "read" /\ writes >= 1 =>
    /\ last.path = lastPath
    /\ last.ret = json_load(json_dump(lastData))

\* C6: a restore (or load) whose latest snapshot is the empty list, the
\* database not failing in the delete, returns without error and leaves the
\* table empty, whatever rows it held.
C6_EmptySnapshotEmptiesTable ==
  [][(last'.op \in {"restore", "load"} /\ last'.fault # "delete"
        /\ LatestSnapshotIsEmptyList)
       => (last'.err = "none" /\ table' = <<>>)]_vars

\* C6, witness: a restore from an empty-list snapshot returned, called when
\* the table held rows, and the table is empty.
C6_Witness ==
  /\ last.op = "restore"
  /\ last.err = "none"
  /\ last.ret = <<>>
  /\ last.had > 0
  /\ table = <<>>

\* C7: with no matching file in the directory, read() raises
\* FileNotFoundError on "0001_<name>" and the directory stays as it was; a
\* restore (or load) raises the same error and the table stays as it was.
C7_NoBackupIsNotFound ==
  [][((\A n \in listdir(dir) : ~endswith(n, BACKUP_FILE_NAME))
        /\ last'.op \in {"read", "restore", "load"})
       => (/\ last'.err = "FileNotFoundError"
           /\ last'.path = FirstRevisionName
           /\ dir' = dir
           /\ FirstRevisionName \notin listdir(dir')
           /\ table' = table)]_vars

\* C7, witness: a restore found no backup and raised; the table holds the
\* rows it held.
C7_Witness ==
  /\ last.op = "restore"
  /\ last.err = "FileNotFoundError"
  /\ last.fault = "none"
  /\ listdir(dir) = {}
  /\ last.had > 0
  /\ Len(table) = last.had

\* C8: when two concurrent writers have computed the same revision, their
\* two write calls leave one file, and it holds the data of the writer that
\* opened it last.
C8_SameRevisionLeavesOneFile ==
  (\A p \in Writers : wpc[p] = "done") /\ wpath[1] = wpath[2] =>
    /\ Cardinality(listdir(dir)) = 1
    /\ dir[wpath[1]] = json_dump(wdata[opened[Len(opened)]])

\* C8, witness: both writers are done, they computed the same revision, and
\* the snapshot of the writer that opened first is in no file.
C8_Witness ==
  /\ \A p \in Writers : wpc[p] = "done"
  /\ wpath[1] = wpath[2]
  /\ wdata[1] # wdata[2]
  /\ \A n \in listdir(dir) : dir[n] # json_dump(wdata[opened[1]])

\* C9: with a matching file in the directory, the revision the next write
\* chooses is the number of the lexicographically greatest matching name
\* plus one, padded to the same width, with that name's suffix, and it is
\* the name of no file already there.
C9_NextRevisionIsFresh ==
  listdir(dir) # {} =>
    /\ new_file_path(dir, BACKUP_FILE_NAME)
         = format_d(int(SubSeq(sorted_last(listdir(dir)), 1, revision_num_len)) + 1,
                    revision_num_len)
           \o SubSeq(sorted_last(listdir(dir)), revision_num_len + 1,
                     Len(sorted_last(listdir(dir))))
    /\ new_file_path(dir, BACKUP_FILE_NAME) \notin listdir(dir)

\* C10: save() leaves the table as it is, and a restore (or load) that
\* returns, whatever was inserted, deleted or updated since the last save(),
\* leaves the table holding the rows it held at that save().
C10_RestoreRecoversSavedTable ==
  [][/\ (last'.op = "save" => table' = table)
     /\ ((last'.op \in {"restore", "load"} /\ last'.err = "none" /\ snap.has)
           => table' = snap.rows)]_vars

====
